---- MODULE Spec2Model ----
(***************************************************************************)
(* Application lifecycle and notification fan-out of the VexeraDubbing     *)
(* administrative bot.  The repository holds three programs:               *)
(*   bot.py   asyncio, relational store, intake queue, background consumer *)
(*   main.py  Flask (threaded), three in-memory buckets, a JSON file       *)
(*   app.py   main.py with the Telegram calls awaited / scheduled          *)
(* One behaviour of this module is one run of one of them (variable        *)
(* variant).  A step of bot.py is an awaited database or Telegram call     *)
(* with the synchronous code that follows it; calls of one handler that    *)
(* no other task can tell apart are joined into one step (noted at the     *)
(* actions).  A step of main.py / app.py is a read or a write of a global  *)
(* on the way through POST /submit, or the part of a handler before or     *)
(* after its first Telegram call.                                          *)
(***************************************************************************)
EXTENDS Integers, Sequences, FiniteSets, TLC

\* ------------------------------------------------------------- bounds
\* accepted-or-attempted submissions per run (caps the counter)
MaxApps == 2
\* timestamps are told apart up to this many writes of a row
MaxStamp == 2

\* ------------------------------------------------------ configuration
AppIds == 1..MaxApps
\* concurrent aiohttp requests (bot.py) / Flask worker threads (main.py, app.py)
HttpTasks == {"h1"}
\* the Flask threads that serve POST /submit at the same time
WebTasks == {"w1", "w2"}

VARIABLES
    variant,      \* which program runs: "bot" (bot.py) or "json" (main.py, app.py)
    env,          \* what the outside world does in this run (see Cap)
    last,         \* the request answered last and its answer
    \* ---- bot.py: relational store
    counter,      \* counters.value for 'application_counter'
    status,       \* applications.status by id; "none" = no row
    appdata,      \* applications.application_data
    tguser,       \* applications.telegram_username
    updated_at,   \* applications.updated_at, as the number of times NOW() was
                  \* stored in the row after its INSERT (NOW() grows from one
                  \* statement to the next); counts up to MaxStamp
    refs,         \* messages rows: set of <<application_id, chat_id, message_id>>
    \* ---- bot.py: process state
    app_queue,    \* asyncio.Queue of <<app_id, source>>
    app_lock,     \* asyncio.Lock: "free" or the task that holds it
    http,         \* the aiohttp request tasks
    upd,          \* the update the PTB dispatcher is handling (one at a time)
    cons,         \* the background consumer task
    \* ---- Telegram side
    tg,           \* content of the fan-out copy of app a in chat c
    \* ---- main.py / app.py (variant "json"; app.py differs from main.py in
    \* awaiting or scheduling the Telegram calls, the steps are the same)
    application_counter,
    PENDING_APPLICATIONS,
    APPROVED_APPLICATIONS,
    REJECTED_APPLICATIONS,
    db_file,      \* the document save_database wrote last
    web,          \* the Flask threads that serve POST /submit
    btn,          \* the Flask thread that serves a button press
    sent          \* <<app_id, admin>>: fan-out notifications delivered

\* The runs explored are of two kinds.  In a "review" run one application at
\* most is submitted, with a well-formed payload, and every user presses any
\* button and sends any command.  In an "intake" run up to MaxApps
\* applications are submitted through both boundaries, with any payload,
\* while the consumer fans them out; nobody decides on them.  A "race" run
\* (main.py / app.py) has as many submissions as there are threads, served
\* at the same time, and the administrators' button presses on them.  A
\* "twice" run (bot.py) fans one application out to an administrator list
\* that names the first administrator twice.
Cap == IF env \in {"review", "twice"} THEN 1
       ELSE IF env = "race" THEN Cardinality(WebTasks)
       ELSE MaxApps

\* bot.py:33 / main.py:24: the administrators, in the order of the env list;
\* in a "twice" run the list names the first administrator twice
ADMIN_CHAT_IDS == IF env = "twice" THEN <<1, 2, 1>> ELSE <<1, 2>>
AdminSet == {ADMIN_CHAT_IDS[k] : k \in 1..Len(ADMIN_CHAT_IDS)}
\* Telegram users that talk to the bot: the administrators and one outsider
Users == AdminSet \cup {3}

\* An answer: op is the handler ("http", "button", "cmd", "chat", "submit"),
\* action the callback token, command, text or body kind, own whether the
\* pressed message was the user's recorded copy, edited the chats whose
\* recorded copy the handler tried to edit, reply what the user got ("none":
\* nothing at all).
NoAnswer == [op |-> "none", user |-> 0, action |-> "none", app_id |-> 0,
             own |-> FALSE, edited |-> {}, reply |-> "none"]
Answer(op, user, action, app_id, reply) ==
    [NoAnswer EXCEPT !.op = op, !.user = user, !.action = action, !.app_id = app_id,
                     !.reply = reply]

botStore == <<counter, status, appdata, tguser, updated_at, refs>>
botVars == <<counter, status, appdata, tguser, updated_at, refs,
             app_queue, app_lock, http, upd, cons, tg>>
jsonStore == <<application_counter, PENDING_APPLICATIONS, APPROVED_APPLICATIONS,
               REJECTED_APPLICATIONS>>
jsonVars == <<application_counter, PENDING_APPLICATIONS, APPROVED_APPLICATIONS,
              REJECTED_APPLICATIONS, db_file, web, btn, sent>>
vars == <<variant, env, last, botVars, jsonVars>>

\* ---------------------------------------------------------- bot.py: helpers

\* an admin check that lets everybody through
is_admin_open(user_id) == TRUE

\* bot.py:97-98
is_admin(user_id) == user_id \in AdminSet

\* bot.py:109-117: UPDATE counters SET value = value + 1 RETURNING value
get_next_application_id == counter + 1

\* the decimal digits of n, as Python's integer formatting writes them
RECURSIVE Digits(_)
Digits(n) == IF n < 10 THEN <<n>> ELSE Digits(n \div 10) \o <<n % 10>>

\* the format spec 04d: zeros in front up to the width w, never a cut
ZeroPad(ds, w) == IF Len(ds) >= w THEN ds ELSE [i \in 1..(w - Len(ds)) |-> 0] \o ds

\* bot.py:117: f"APP-{counter:04d}", the id text of the n-th counter value
FormatAppId(n) == <<"APP-">> \o ZeroPad(Digits(n), 4)

\* main.py:344: str(application_counter)
str(n) == Digits(n)

\* a later reading of the clock than stamp t
Later(t) == IF t < MaxStamp THEN t + 1 ELSE MaxStamp

\* bot.py:152-158: UPDATE applications SET status, updated_at = NOW() WHERE id
update_application_status(app_id, new) ==
    /\ status' = [status EXCEPT ![app_id] = IF @ = "none" THEN @ ELSE new]
    /\ updated_at' = [updated_at EXCEPT ![app_id] =
                         IF status[app_id] = "none" THEN @ ELSE Later(@)]

\* bot.py:120-125: INSERT INTO applications (id is the primary key)
save_application(app_id, st, data, telegram) ==
    /\ status' = [status EXCEPT ![app_id] = st]
    /\ appdata' = [appdata EXCEPT ![app_id] = data]
    /\ tguser' = [tguser EXCEPT ![app_id] = telegram]
    /\ updated_at' = [updated_at EXCEPT ![app_id] = 0]

\* an INSERT INTO messages that does not look for the row of the pair
save_message_insert(app_id, chat_id, message_id) ==
    refs' = refs \cup {<<app_id, chat_id, message_id>>}

\* a row written under the id that follows, with no look at the applications
save_message_orphan(app_id, chat_id, message_id) ==
    refs' = refs \cup {<<app_id + 1, chat_id, message_id>>}

\* bot.py:66-73, 128-135: INSERT ... ON CONFLICT (application_id, chat_id) DO
\* UPDATE SET message_id; application_id REFERENCES applications(id), so the
\* INSERT for an id without a row raises and writes nothing
save_message(app_id, chat_id, message_id) ==
    refs' = IF status[app_id] = "none"
            THEN refs
            ELSE {r \in refs : ~(r[1] = app_id /\ r[2] = chat_id)}
                 \cup {<<app_id, chat_id, message_id>>}

\* bot.py:145-149: the chats that hold a recorded copy of app_id
get_application_messages(app_id) == {r[2] : r \in {x \in refs : x[1] = app_id}}

\* bot.py:261-268: message.message_id of the i-th send for app_id, an id
\* Telegram has not given before
MessageId(app_id, i) == (app_id - 1) * Len(ADMIN_CHAT_IDS) + i

\* bot.py:294-297: first line that contains "Telegram", split on ': ', piece 1
\* text kinds: "noline" has no such line, "label" has "Telegram: @h",
\* "malformed" has a line with the word but without ': ' (IndexError)
ExtractTelegram(text) ==
    CASE text = "label" -> "@h"
      [] text = "malformed" -> "raise"
      [] OTHER -> "N/A"

\* ------------------------------------------------- bot.py: HTTP intake

HttpIdle == [pc |-> "idle", body |-> "none", app_id |-> 0]

\* request bodies: "invalid" is not JSON, "list" is JSON but no object, the
\* others are objects: {}, {application_data: "  ", telegram: "@h"},
\* {application_data: text, telegram: "@h"}, {application_data: 5}
Bodies == IF env = "intake"
          THEN {"invalid", "list", "empty", "blank", "full", "badtype"}
          ELSE {"invalid", "full"}

\* bot.py:211: data.get('application_data', '')
BodyData(body) ==
    CASE body = "full" -> "p1"
      [] body = "blank" -> "  "
      [] OTHER -> ""

\* bot.py:212: data.get('telegram', 'N/A')
BodyTelegram(body) == IF body \in {"blank", "full"} THEN "@h" ELSE "N/A"

\* bot.py:207-213: data.get raises AttributeError on a list, the INSERT raises
\* on a value that is no text
SaveRaises(body) == body \in {"list", "badtype"}

\* bot.py:198-205, 224-229: request.json(), then async with app_lock (the wait
\* for the lock changes nothing, so the request starts when it gets the lock)
HttpBegin(h, body) ==
    /\ variant = "bot"
    /\ http[h].pc = "idle"
    /\ counter < Cap
    /\ IF body = "invalid"
       THEN /\ last' = Answer("http", 0, body, 0, "500")
            /\ UNCHANGED <<app_lock, http>>
       ELSE /\ app_lock = "free"
            /\ app_lock' = h
            /\ http' = [http EXCEPT ![h] = [pc |-> "getid", body |-> body, app_id |-> 0]]
            /\ UNCHANGED last
    /\ UNCHANGED <<variant, env, jsonVars, botStore, app_queue, upd, cons, tg>>

\* bot.py:206
HttpGetId(h) ==
    /\ variant = "bot"
    /\ http[h].pc = "getid"
    /\ counter' = get_next_application_id
    /\ http' = [http EXCEPT ![h].pc = "save", ![h].app_id = counter']
    /\ UNCHANGED <<variant, env, last, jsonVars, status, appdata, tguser, updated_at, refs,
                   app_queue, app_lock, upd, cons, tg>>

\* a handler that stores and answers only when the consumer is at rest
HttpSaveAfterDelivery(h) ==
    /\ variant = "bot"
    /\ http[h].pc = "save"
    /\ cons.pc = "get"
    /\ app_lock' = "free"
    /\ http' = [http EXCEPT ![h] = HttpIdle]
    /\ IF SaveRaises(http[h].body)
       THEN /\ last' = Answer("http", 0, http[h].body, http[h].app_id, "500")
            /\ UNCHANGED <<status, appdata, tguser, updated_at, app_queue>>
       ELSE /\ save_application(http[h].app_id, "received",
                                BodyData(http[h].body), BodyTelegram(http[h].body))
            /\ app_queue' = Append(app_queue, <<http[h].app_id, "website">>)
            /\ last' = Answer("http", 0, http[h].body, http[h].app_id, "200")
    /\ UNCHANGED <<variant, env, jsonVars, counter, refs, upd, cons, tg>>

\* bot.py:207-229: the INSERT (or the exception), release of the lock, queue
\* put, response
HttpSave(h) ==
    /\ variant = "bot"
    /\ http[h].pc = "save"
    /\ app_lock' = "free"
    /\ http' = [http EXCEPT ![h] = HttpIdle]
    /\ IF SaveRaises(http[h].body)
       THEN /\ last' = Answer("http", 0, http[h].body, http[h].app_id, "500")
            /\ UNCHANGED <<status, appdata, tguser, updated_at, app_queue>>
       ELSE /\ save_application(http[h].app_id, "received",
                                BodyData(http[h].body), BodyTelegram(http[h].body))
            /\ app_queue' = Append(app_queue, <<http[h].app_id, "website">>)
            /\ last' = Answer("http", 0, http[h].body, http[h].app_id, "200")
    /\ UNCHANGED <<variant, env, jsonVars, counter, refs, upd, cons, tg>>

\* ------------------------------------------- bot.py: background consumer

ConsIdle == [pc |-> "get", app_id |-> 0, i |-> 0]

\* bot.py:259, 272: the next administrator of the loop, or the status update
ConsNext(c) ==
    IF c.i < Len(ADMIN_CHAT_IDS)
    THEN [c EXCEPT !.pc = "send", !.i = c.i + 1]
    ELSE [c EXCEPT !.pc = "status"]

\* bot.py:237-243: queue.get(), get_application (skip an id without a row)
ConsGet ==
    /\ variant = "bot"
    /\ cons.pc = "get"
    /\ app_queue # <<>>
    /\ app_queue' = Tail(app_queue)
    /\ cons' = IF status[Head(app_queue)[1]] = "none"
               THEN ConsIdle
               ELSE [pc |-> "send", app_id |-> Head(app_queue)[1], i |-> 1]
    /\ UNCHANGED <<variant, env, last, jsonVars, botStore, app_lock, http, upd, tg>>

\* a send whose failure escapes the loop: the consumer drops the application
ConsSendAbort(ok) ==
    /\ variant = "bot"
    /\ cons.pc = "send"
    /\ IF ok
       THEN /\ tg' = [tg EXCEPT ![cons.app_id][ADMIN_CHAT_IDS[cons.i]] = "new"]
            /\ cons' = [cons EXCEPT !.pc = "savemsg"]
       ELSE /\ cons' = [pc |-> "get", app_id |-> 0, i |-> 0]
            /\ UNCHANGED tg
    /\ UNCHANGED <<variant, env, last, jsonVars, botStore, app_queue, app_lock, http, upd>>

\* bot.py:259-266, 269-270: send_message to the i-th administrator
ConsSend(ok) ==
    /\ variant = "bot"
    /\ cons.pc = "send"
    /\ IF ok
       THEN /\ tg' = [tg EXCEPT ![cons.app_id][ADMIN_CHAT_IDS[cons.i]] = "new"]
            /\ cons' = [cons EXCEPT !.pc = "savemsg"]
       ELSE /\ cons' = ConsNext(cons)
            /\ UNCHANGED tg
    /\ UNCHANGED <<variant, env, last, jsonVars, botStore, app_queue, app_lock, http, upd>>

\* bot.py:268
ConsSaveMessage ==
    /\ variant = "bot"
    /\ cons.pc = "savemsg"
    /\ save_message(cons.app_id, ADMIN_CHAT_IDS[cons.i], MessageId(cons.app_id, cons.i))
    /\ cons' = ConsNext(cons)
    /\ UNCHANGED <<variant, env, last, jsonVars, counter, status, appdata, tguser, updated_at,
                   app_queue, app_lock, http, upd, tg>>

\* a consumer that ends the application without the status update
ConsStatusSkip ==
    /\ variant = "bot"
    /\ cons.pc = "status"
    /\ cons' = [pc |-> "get", app_id |-> 0, i |-> 0]
    /\ UNCHANGED <<variant, env, last, jsonVars, botStore, app_queue, app_lock, http, upd, tg>>

\* bot.py:272-274
ConsStatus ==
    /\ variant = "bot"
    /\ cons.pc = "status"
    /\ update_application_status(cons.app_id, "pending")
    /\ cons' = ConsIdle
    /\ UNCHANGED <<variant, env, last, jsonVars, counter, appdata, tguser, refs,
                   app_queue, app_lock, http, upd, tg>>

\* ------------------------------------- bot.py: updates handled by the bot
\* The dispatcher handles one update at a time (no concurrent_updates), so
\* one record holds the handler that is running.  A handler's read of an
\* application row is joined to its next write: rows are never deleted and
\* application_data never changes, so the read gives the same result there.
\* The edits of a handler are one step: no other task touches a copy that is
\* recorded.

UpdIdle == [kind |-> "none", pc |-> "idle", user |-> 0, action |-> "none",
            app_id |-> 0, own |-> FALSE, new_status |-> "none"]

\* callback tokens: the three the code knows and one it does not
Tokens == {"approve", "reject", "view", "foo"}

\* bot.py:344-349, 485-492
NewStatus(action) == IF action = "approve" THEN "approved" ELSE "rejected"

\* bot.py:315-355: a button press by user u with callback data action_id, up
\* to the status update.  own: the pressed message is u's fan-out copy of the
\* application (otherwise another message that carries the buttons, such as
\* the reply to /review).
ButtonPress(u, action, id, own) ==
    /\ variant = "bot"
    /\ env = "review"
    /\ upd.pc = "idle"
    /\ own => (u \in AdminSet /\ tg[id][u] # "none")
    /\ IF ~is_admin(u)
       THEN /\ last' = Answer("button", u, action, id, "denied")
            /\ UNCHANGED <<status, updated_at, tg, upd>>
       ELSE IF status[id] = "none"
       THEN /\ last' = Answer("button", u, action, id, "notfound")
            /\ UNCHANGED <<status, updated_at, tg, upd>>
       ELSE IF action = "view"
       THEN /\ last' = [Answer("button", u, action, id, "view") EXCEPT !.own = own]
            /\ tg' = IF own THEN [tg EXCEPT ![id][u] = "view"] ELSE tg
            /\ UNCHANGED <<status, updated_at, upd>>
       ELSE IF action \in {"approve", "reject"}
       THEN /\ update_application_status(id, NewStatus(action))
            /\ upd' = [kind |-> "button", pc |-> "edit", user |-> u, action |-> action,
                       app_id |-> id, own |-> own, new_status |-> NewStatus(action)]
            /\ UNCHANGED <<tg, last>>
       ELSE /\ last' = Answer("button", u, action, id, "none")
            /\ UNCHANGED <<status, updated_at, tg, upd>>
    /\ UNCHANGED <<variant, env, jsonVars, counter, appdata, tguser, refs,
                   app_queue, app_lock, http, cons>>

\* bot.py:364-366: the recorded copies button_handler goes on to edit
ButtonTargets(app_id, user) == get_application_messages(app_id) \ {user}

\* bot.py:499-500: the recorded copies _process_application_action edits
CmdTargets(app_id) == get_application_messages(app_id)

\* bot.py:357-380: edit the pressed message (a failure ends the handler), read
\* the recorded copies, one edit_message_text for each, failures logged.
\* okOwn: the first edit succeeds; oks: the chats whose edit succeeds.
ButtonEdits(okOwn, oks) ==
    /\ variant = "bot"
    /\ upd.kind = "button" /\ upd.pc = "edit"
    /\ LET mine == IF upd.own THEN {upd.user} ELSE {}
           t == ButtonTargets(upd.app_id, upd.user)
           a == [Answer("button", upd.user, upd.action, upd.app_id, "ok") EXCEPT !.own = upd.own]
       IN  IF okOwn
           THEN /\ oks \subseteq t
                /\ tg' = [tg EXCEPT ![upd.app_id] =
                            [c \in AdminSet |-> IF c \in oks \cup mine THEN upd.new_status ELSE @[c]]]
                /\ last' = [a EXCEPT !.edited = t \cup mine]
           ELSE /\ oks = {}
                /\ last' = [a EXCEPT !.edited = mine, !.reply = "error"]
                /\ UNCHANGED tg
    /\ upd' = UpdIdle
    /\ UNCHANGED <<variant, env, jsonVars, botStore, app_queue, app_lock, http, cons>>

\* the commands that take an application id
Commands == {"approve", "reject", "review"}

\* bot.py:100-106, 415-496: /approve, /reject or /review <id> by user u, up
\* to the status update (/review only replies)
Command(u, action, id) ==
    /\ variant = "bot"
    /\ env = "review"
    /\ upd.pc = "idle"
    /\ IF ~is_admin(u)
       THEN /\ last' = Answer("cmd", u, action, id, "denied")
            /\ UNCHANGED <<status, updated_at, upd>>
       ELSE IF status[id] = "none"
       THEN /\ last' = Answer("cmd", u, action, id, "notfound")
            /\ UNCHANGED <<status, updated_at, upd>>
       ELSE IF action = "review"
       THEN /\ last' = Answer("cmd", u, action, id, "view")
            /\ UNCHANGED <<status, updated_at, upd>>
       ELSE /\ update_application_status(id, NewStatus(action))
            /\ upd' = [kind |-> "cmd", pc |-> "edit", user |-> u, action |-> action,
                       app_id |-> id, own |-> FALSE, new_status |-> NewStatus(action)]
            /\ UNCHANGED last
    /\ UNCHANGED <<variant, env, jsonVars, counter, appdata, tguser, refs,
                   app_queue, app_lock, http, cons, tg>>

\* bot.py:498-515: read the recorded copies, one edit_message_text for each,
\* failures logged, then the reply
CommandEdits(oks) ==
    /\ variant = "bot"
    /\ upd.kind = "cmd" /\ upd.pc = "edit"
    /\ LET t == CmdTargets(upd.app_id)
       IN  /\ oks \subseteq t
           /\ tg' = [tg EXCEPT ![upd.app_id] =
                       [c \in AdminSet |-> IF c \in oks THEN upd.new_status ELSE @[c]]]
           /\ last' = [Answer("cmd", upd.user, upd.action, upd.app_id, "ok") EXCEPT !.edited = t]
    /\ upd' = UpdIdle
    /\ UNCHANGED <<variant, env, jsonVars, botStore, app_queue, app_lock, http, cons>>

\* chat texts: without the marker, and with it the three kinds of ExtractTelegram
Texts == IF env = "intake"
         THEN {"nomarker", "noline", "label", "malformed"}
         ELSE {"nomarker", "label"}

\* bot.py:279-292: a text message (of any user); with the marker it takes
\* app_lock
ChatMessage(text) ==
    /\ variant = "bot"
    /\ upd.pc = "idle"
    /\ IF text = "nomarker"
       THEN /\ last' = Answer("chat", 0, text, 0, "none")
            /\ UNCHANGED <<app_lock, upd>>
       ELSE /\ counter < Cap
            /\ app_lock = "free"
            /\ app_lock' = "chat"
            /\ upd' = [UpdIdle EXCEPT !.kind = "chat", !.pc = "getid", !.action = text]
            /\ UNCHANGED last
    /\ UNCHANGED <<variant, env, jsonVars, botStore, app_queue, http, cons, tg>>

\* bot.py:293
ChatGetId ==
    /\ variant = "bot"
    /\ upd.kind = "chat" /\ upd.pc = "getid"
    /\ counter' = get_next_application_id
    /\ upd' = [upd EXCEPT !.pc = "save", !.app_id = counter']
    /\ UNCHANGED <<variant, env, last, jsonVars, status, appdata, tguser, updated_at, refs,
                   app_queue, app_lock, http, cons, tg>>

\* bot.py:294-313: extract the handle (IndexError on a malformed line), INSERT
\* with status pending, release, queue put
ChatSave ==
    /\ variant = "bot"
    /\ upd.kind = "chat" /\ upd.pc = "save"
    /\ app_lock' = "free"
    /\ upd' = UpdIdle
    /\ IF ExtractTelegram(upd.action) = "raise"
       THEN /\ last' = Answer("chat", 0, upd.action, upd.app_id, "error")
            /\ UNCHANGED <<status, appdata, tguser, updated_at, app_queue>>
       ELSE /\ save_application(upd.app_id, "pending", upd.action, ExtractTelegram(upd.action))
            /\ app_queue' = Append(app_queue, <<upd.app_id, "telegram">>)
            /\ last' = Answer("chat", 0, upd.action, upd.app_id, "stored")
    /\ UNCHANGED <<variant, env, jsonVars, counter, refs, http, cons, tg>>

\* --------------------------------------------- main.py / app.py: store

Absent == [in |-> FALSE, payload |-> "none", approved |-> FALSE, rejected |-> FALSE,
           processed_by |-> 0, processed_time |-> 0]

\* main.py:345-354: the record of a new application
NewApplication(payload) == [Absent EXCEPT !.in = TRUE, !.payload = payload]

\* main.py:57-69: the document written from the globals as the step leaves them
save_database ==
    db_file' = [pending |-> PENDING_APPLICATIONS', approved |-> APPROVED_APPLICATIONS',
                rejected |-> REJECTED_APPLICATIONS', counter |-> application_counter']

\* a search that takes an id found nowhere for a pending one
SourceOfDefault(app_id) ==
    IF APPROVED_APPLICATIONS[app_id].in THEN "approved"
    ELSE IF REJECTED_APPLICATIONS[app_id].in THEN "rejected"
    ELSE "pending"

\* main.py:227-235: the bucket the id is found in
SourceOf(app_id) ==
    IF PENDING_APPLICATIONS[app_id].in THEN "pending"
    ELSE IF APPROVED_APPLICATIONS[app_id].in THEN "approved"
    ELSE IF REJECTED_APPLICATIONS[app_id].in THEN "rejected"
    ELSE "none"

\* main.py:227-235: the record found
Lookup(app_id) ==
    CASE SourceOf(app_id) = "pending" -> PENDING_APPLICATIONS[app_id]
      [] SourceOf(app_id) = "approved" -> APPROVED_APPLICATIONS[app_id]
      [] SourceOf(app_id) = "rejected" -> REJECTED_APPLICATIONS[app_id]
      [] OTHER -> Absent

\* main.py:168-172: the label format_application gives a record
format_application(application) ==
    IF application.approved THEN "approved"
    ELSE IF application.rejected THEN "rejected"
    ELSE "new"

\* main.py:396-405: the counts GET / reports for the buckets p, a, r
index(p, a, r) ==
    [pending_applications |-> Cardinality({id \in AppIds : p[id].in}),
     approved_applications |-> Cardinality({id \in AppIds : a[id].in}),
     rejected_applications |-> Cardinality({id \in AppIds : r[id].in})]

\* ------------------------------------- main.py / app.py: POST /submit

\* main.py:335
required_fields == <<"name", "contact", "role", "motivation">>

\* a value of a required field in the body: absent, blank, a text, or not a string
FieldValues == {"absent", "blank", "text", "nonstring"}

\* request bodies: null, or an object with the four fields; in a "review"
\* run only the first field varies
AllBodies == {[null |-> TRUE, name |-> "absent", contact |-> "absent", role |-> "absent",
               motivation |-> "absent"]}
             \cup [null : {FALSE}, name : FieldValues, contact : FieldValues,
                   role : FieldValues, motivation : FieldValues]
WebBodies == IF env = "intake"
             THEN AllBodies
             ELSE {b \in AllBodies : /\ b.contact = "text" /\ b.role = "text"
                                     /\ b.motivation = "text"
                                     /\ env = "race" => b.name = "text"}

\* main.py:336-341 from the k-th field on: 400 at the first field that is
\* absent or blank, 500 when .strip() is called on a value that is no string
RECURSIVE ValidateFrom(_, _)
ValidateFrom(data, k) ==
    IF k > Len(required_fields) THEN "200"
    ELSE LET v == data[required_fields[k]]
         IN  IF v = "absent" THEN "400"
             ELSE IF v = "nonstring" THEN "500"
             ELSE IF v = "blank" THEN "400"
             ELSE ValidateFrom(data, k + 1)

\* main.py:331-341, 381-386: `field not in data` raises on a null body
Validate(data) == IF data.null THEN "500" ELSE ValidateFrom(data, 1)

WebIdle == [pc |-> "idle", app_id |-> 0, tmp |-> 0]

\* submissions under way that will still add one to the counter
WebPending == Cardinality({t \in WebTasks : web[t].pc \in {"load", "store"}})

\* the sends of a fan-out that succeed: any in a "review" run
SendOutcomes == IF env = "review" THEN SUBSET AdminSet ELSE {AdminSet}

\* a handler that adds one to the counter before it looks at the body
WebhookBeginCountFirst(t, data) ==
    /\ variant = "json"
    /\ web[t].pc = "idle"
    /\ application_counter + WebPending <= Cap
    /\ IF Validate(data) = "200"
       THEN /\ web' = [web EXCEPT ![t] = [pc |-> "load", app_id |-> application_counter, tmp |-> 0]]
            /\ UNCHANGED <<last, application_counter>>
       ELSE /\ last' = Answer("submit", 0, "none", 0, Validate(data))
            /\ application_counter' = application_counter + 1
            /\ UNCHANGED web
    /\ UNCHANGED <<variant, env, botVars, PENDING_APPLICATIONS, APPROVED_APPLICATIONS,
                   REJECTED_APPLICATIONS, db_file, btn, sent>>

\* main.py:327-344: validation, then app_id = str(application_counter)
WebhookBegin(t, data) ==
    /\ variant = "json"
    /\ web[t].pc = "idle"
    /\ application_counter + WebPending <= Cap
    /\ IF Validate(data) = "200"
       THEN /\ web' = [web EXCEPT ![t] = [pc |-> "load", app_id |-> application_counter, tmp |-> 0]]
            /\ UNCHANGED last
       ELSE /\ last' = Answer("submit", 0, "none", 0, Validate(data))
            /\ UNCHANGED web
    /\ UNCHANGED <<variant, env, botVars, jsonStore, db_file, btn, sent>>

\* main.py:355: application_counter += 1 reads the global ...
WebhookLoad(t) ==
    /\ variant = "json"
    /\ web[t].pc = "load"
    /\ web' = [web EXCEPT ![t].pc = "store", ![t].tmp = application_counter]
    /\ UNCHANGED <<variant, env, last, botVars, jsonStore, db_file, btn, sent>>

\* main.py:355: ... and stores the sum
WebhookStore(t) ==
    /\ variant = "json"
    /\ web[t].pc = "store"
    /\ application_counter' = web[t].tmp + 1
    /\ web' = [web EXCEPT ![t].pc = "put"]
    /\ UNCHANGED <<variant, env, last, botVars, PENDING_APPLICATIONS, APPROVED_APPLICATIONS,
                   REJECTED_APPLICATIONS, db_file, btn, sent>>

\* main.py:345-353: the submitted values the record is built from; in a
\* "race" run each thread's request carries a text of its own
PayloadOf(t) == IF env = "race" THEN t ELSE "text"

\* main.py:357-358
WebhookPut(t) ==
    /\ variant = "json"
    /\ web[t].pc = "put"
    /\ PENDING_APPLICATIONS' = [PENDING_APPLICATIONS EXCEPT ![web[t].app_id] = NewApplication(PayloadOf(t))]
    /\ web' = [web EXCEPT ![t].pc = "notify"]
    /\ UNCHANGED <<variant, env, last, botVars, application_counter, APPROVED_APPLICATIONS,
                   REJECTED_APPLICATIONS, db_file, btn, sent>>

\* main.py:360-379: a send to every administrator (oks: those that succeed),
\* save_database, the 200 response
WebhookFinish(t, oks) ==
    /\ variant = "json"
    /\ web[t].pc = "notify"
    /\ sent' = sent \cup {<<web[t].app_id, a>> : a \in oks}
    /\ UNCHANGED jsonStore
    /\ save_database
    /\ web' = [web EXCEPT ![t] = WebIdle]
    /\ last' = Answer("submit", 0, "none", web[t].app_id, "200")
    /\ UNCHANGED <<variant, env, botVars, btn>>

\* ------------------------------------- main.py / app.py: button presses

BtnIdle == [pc |-> "idle", user |-> 0, action |-> "none", app_id |-> 0]

JsonTokens == {"approve", "reject", "details", "delete", "foo"}

\* a decision that sets the flag and leaves out who decided and when
DecideUnsigned(application, flag, admin_name) ==
    [application EXCEPT !.approved = IF flag = "approved" THEN TRUE ELSE @,
                        !.rejected = IF flag = "rejected" THEN TRUE ELSE @]

\* main.py:246-248, 269-271: the decision written into the record
Decide(application, flag, admin_name) ==
    [application EXCEPT !.approved = IF flag = "approved" THEN TRUE ELSE @,
                        !.rejected = IF flag = "rejected" THEN TRUE ELSE @,
                        !.processed_by = admin_name,
                        !.processed_time = Later(@)]

\* del BUCKET[app_id]
Remove(bucket, app_id) == [bucket EXCEPT ![app_id] = Absent]

\* main.py:250-255, 273-278, 298-303: the buckets after the action on a record
\* found in bucket src
PendingAfter(action, src, id) ==
    IF src = "pending" THEN Remove(PENDING_APPLICATIONS, id) ELSE PENDING_APPLICATIONS

ApprovedAfter(action, src, id, u) ==
    IF action = "approve"
    THEN [APPROVED_APPLICATIONS EXCEPT ![id] = Decide(Lookup(id), "approved", u)]
    ELSE IF src = "approved" THEN Remove(APPROVED_APPLICATIONS, id) ELSE APPROVED_APPLICATIONS

RejectedAfter(action, src, id, u) ==
    IF action = "reject"
    THEN [REJECTED_APPLICATIONS EXCEPT ![id] = Decide(Lookup(id), "rejected", u)]
    ELSE IF src = "rejected" THEN Remove(REJECTED_APPLICATIONS, id) ELSE REJECTED_APPLICATIONS

\* a handler whose delete branch is an else: it takes every other token
JsonButtonElseDelete(u, action, id) ==
    /\ variant = "json"
    /\ env \in {"review", "race"}
    /\ btn.pc = "idle"
    /\ IF u \notin AdminSet
       THEN /\ last' = Answer("button", u, action, id, "denied")
            /\ UNCHANGED <<jsonStore, db_file, btn>>
       ELSE IF SourceOf(id) = "none"
       THEN /\ last' = Answer("button", u, action, id, "notfound")
            /\ UNCHANGED <<jsonStore, db_file, btn>>
       ELSE IF action # "details"
       THEN /\ PENDING_APPLICATIONS' = PendingAfter(action, SourceOf(id), id)
            /\ APPROVED_APPLICATIONS' = ApprovedAfter(action, SourceOf(id), id, u)
            /\ REJECTED_APPLICATIONS' = RejectedAfter(action, SourceOf(id), id, u)
            /\ btn' = [pc |-> "edit", user |-> u, action |-> action, app_id |-> id]
            /\ UNCHANGED <<application_counter, db_file, last>>
       ELSE IF action = "details"
       THEN /\ btn' = [pc |-> "edit", user |-> u, action |-> action, app_id |-> id]
            /\ UNCHANGED <<jsonStore, db_file, last>>
       ELSE /\ UNCHANGED <<jsonStore, btn>>
            /\ save_database
            /\ last' = Answer("button", u, action, id, "none")
    /\ UNCHANGED <<variant, env, botVars, web, sent>>

\* main.py:212-255, 267-278, 296-303, 311-312: a button press of user u up to
\* the first Telegram call after the admin check; an unknown action goes
\* straight to save_database and gets no answer
JsonButton(u, action, id) ==
    /\ variant = "json"
    /\ env \in {"review", "race"}
    /\ btn.pc = "idle"
    /\ IF u \notin AdminSet
       THEN /\ last' = Answer("button", u, action, id, "denied")
            /\ UNCHANGED <<jsonStore, db_file, btn>>
       ELSE IF SourceOf(id) = "none"
       THEN /\ last' = Answer("button", u, action, id, "notfound")
            /\ UNCHANGED <<jsonStore, db_file, btn>>
       ELSE IF action \in {"approve", "reject", "delete"}
       THEN /\ PENDING_APPLICATIONS' = PendingAfter(action, SourceOf(id), id)
            /\ APPROVED_APPLICATIONS' = ApprovedAfter(action, SourceOf(id), id, u)
            /\ REJECTED_APPLICATIONS' = RejectedAfter(action, SourceOf(id), id, u)
            /\ btn' = [pc |-> "edit", user |-> u, action |-> action, app_id |-> id]
            /\ UNCHANGED <<application_counter, db_file, last>>
       ELSE IF action = "details"
       THEN /\ btn' = [pc |-> "edit", user |-> u, action |-> action, app_id |-> id]
            /\ UNCHANGED <<jsonStore, db_file, last>>
       ELSE /\ UNCHANGED <<jsonStore, btn>>
            /\ save_database
            /\ last' = Answer("button", u, action, id, "none")
    /\ UNCHANGED <<variant, env, botVars, web, sent>>

\* a handler whose details action marks the record with the viewer
JsonButtonFinishMark(ok) ==
    /\ variant = "json"
    /\ btn.pc = "edit"
    /\ PENDING_APPLICATIONS' =
          IF btn.action = "details" /\ PENDING_APPLICATIONS[btn.app_id].in
          THEN [PENDING_APPLICATIONS EXCEPT ![btn.app_id].processed_by = btn.user]
          ELSE PENDING_APPLICATIONS
    /\ UNCHANGED <<application_counter, APPROVED_APPLICATIONS, REJECTED_APPLICATIONS>>
    /\ btn' = [pc |-> "idle", user |-> 0, action |-> "none", app_id |-> 0]
    /\ IF ok
       THEN /\ save_database
            /\ last' = Answer("button", btn.user, btn.action, btn.app_id, "ok")
       ELSE /\ UNCHANGED db_file
            /\ last' = Answer("button", btn.user, btn.action, btn.app_id, "error")
    /\ UNCHANGED <<variant, env, botVars, web, sent>>

\* main.py:257-265, 280-284, 290-294, 305-312: edit_message_text (when it
\* raises the handler ends there), notify_admins, save_database
JsonButtonFinish(ok) ==
    /\ variant = "json"
    /\ btn.pc = "edit"
    /\ UNCHANGED jsonStore
    /\ btn' = BtnIdle
    /\ IF ok
       THEN /\ save_database
            /\ last' = Answer("button", btn.user, btn.action, btn.app_id, "ok")
       ELSE /\ UNCHANGED db_file
            /\ last' = Answer("button", btn.user, btn.action, btn.app_id, "error")
    /\ UNCHANGED <<variant, env, botVars, web, sent>>

\* who presses which button with which outcome of the edit: anybody anything
\* in a "review" run, the first administrator approve or delete with
\* Telegram working in a "race" run
Pressers == IF env = "race" THEN {ADMIN_CHAT_IDS[1]} ELSE Users
Presses == IF env = "race" THEN {"approve", "delete"} ELSE JsonTokens
EditOutcomes == IF env = "race" THEN {TRUE} ELSE BOOLEAN

\* ------------------------------------------------------- specification
\* bot.py:75-87: empty tables, the counter at 0
InitBot ==
    /\ counter = 0
    /\ status = [a \in AppIds |-> "none"]
    /\ appdata = [a \in AppIds |-> "none"]
    /\ tguser = [a \in AppIds |-> "none"]
    /\ updated_at = [a \in AppIds |-> 0]
    /\ refs = {}
    /\ app_queue = <<>>
    /\ app_lock = "free"
    /\ http = [h \in HttpTasks |-> HttpIdle]
    /\ upd = UpdIdle
    /\ cons = ConsIdle
    /\ tg = [a \in AppIds |-> [c \in AdminSet |-> "none"]]

\* main.py:28-31, 408-410: no database file yet
InitJson ==
    /\ application_counter = 1
    /\ PENDING_APPLICATIONS = [a \in AppIds |-> Absent]
    /\ APPROVED_APPLICATIONS = [a \in AppIds |-> Absent]
    /\ REJECTED_APPLICATIONS = [a \in AppIds |-> Absent]
    /\ db_file = [pending |-> PENDING_APPLICATIONS, approved |-> APPROVED_APPLICATIONS,
                  rejected |-> REJECTED_APPLICATIONS, counter |-> application_counter]
    /\ web = [t \in WebTasks |-> WebIdle]
    /\ btn = BtnIdle
    /\ sent = {}

Init ==
    /\ variant \in {"bot", "json"}
    /\ env \in {"review", "intake", "race", "twice"}
    /\ env = "race" => variant = "json"
    /\ env = "twice" => variant = "bot"
    /\ last = NoAnswer
    /\ InitBot
    /\ InitJson

NextBot ==
    \/ \E h \in HttpTasks, body \in Bodies : HttpBegin(h, body)
    \/ \E h \in HttpTasks : HttpGetId(h) \/ HttpSave(h)
    \/ ConsGet
    \/ \E ok \in BOOLEAN : ConsSend(ok)
    \/ ConsSaveMessage
    \/ ConsStatus
    \/ \E u \in Users, action \in Tokens, id \in 1..Cap, own \in BOOLEAN :
          ButtonPress(u, action, id, own)
    \/ \E okOwn \in BOOLEAN, oks \in SUBSET AdminSet : ButtonEdits(okOwn, oks)
    \/ \E u \in Users, action \in Commands, id \in 1..Cap : Command(u, action, id)
    \/ \E oks \in SUBSET AdminSet : CommandEdits(oks)
    \/ \E text \in Texts : ChatMessage(text)
    \/ ChatGetId
    \/ ChatSave

NextJson ==
    \/ \E t \in WebTasks, data \in WebBodies : WebhookBegin(t, data)
    \/ \E t \in WebTasks : WebhookLoad(t) \/ WebhookStore(t) \/ WebhookPut(t)
    \/ \E t \in WebTasks, oks \in SendOutcomes : WebhookFinish(t, oks)
    \/ \E u \in Pressers, action \in Presses, id \in 1..Cap : JsonButton(u, action, id)
    \/ \E ok \in EditOutcomes : JsonButtonFinish(ok)

Next == NextBot \/ NextJson

Spec == Init /\ [][Next]_vars

\* bot.py:556-560: the consumer is a task of the event loop, which runs every
\* task that can go on; every awaited database or Telegram call of the
\* consumer returns or raises
ConsumerFairness ==
    /\ WF_vars(ConsGet)
    /\ WF_vars(\E ok \in BOOLEAN : ConsSend(ok))
    /\ WF_vars(ConsSaveMessage)
    /\ WF_vars(ConsStatus)

\* the runs of bot.py with a consumer that is scheduled
InitBotRun == Init /\ variant = "bot"
FairSpec == InitBotRun /\ [][NextBot]_vars /\ ConsumerFairness

\* bot.py:258-270: as ConsumerFairness, but the call to the first administrator
\* of the list is slow: nothing says that it ever returns
SlowFirstFairness ==
    /\ WF_vars(ConsGet)
    /\ WF_vars(\E ok \in BOOLEAN : cons.i > 1 /\ ConsSend(ok))
    /\ WF_vars(ConsSaveMessage)
    /\ WF_vars(ConsStatus)

\* the runs of bot.py with a slow first administrator
SlowSpec == InitBotRun /\ [][NextBot]_vars /\ SlowFirstFairness

\* bot.py:198-229: the event loop runs the HTTP handler whenever its awaited
\* database call has returned; nothing is said about the consumer
IntakeFairness == \A h \in HttpTasks : WF_vars(HttpGetId(h)) /\ WF_vars(HttpSave(h))

\* the runs of bot.py with a consumer that may stall at any step
StalledSpec == InitBotRun /\ [][NextBot]_vars /\ IntakeFairness

\* ==================================================================
\* Properties
\* ==================================================================

\* counter values handed to a submission that has not stored its row yet
Allocating ==
    {http[h].app_id : h \in {x \in HttpTasks : http[x].pc = "save"}}
    \cup (IF upd.kind = "chat" /\ upd.pc = "save" THEN {upd.app_id} ELSE {})

\* C1: in bot.py every counter value handed out is the id of a stored
\* application (or of the submission that holds app_lock and is about to
\* store it): the ids are 1..N without a gap, and no value is consumed by a
\* submission that fails.
C1_CounterBacked ==
    variant = "bot" =>
        \A k \in 1..counter : status[k] # "none" \/ k \in Allocating

\* C2: in main.py / app.py two /submit requests under way at the same time
\* never hold the same value read from application_counter.
C2_CounterReadOnce ==
    variant = "json" =>
        \A t1, t2 \in WebTasks :
            (t1 # t2 /\ web[t1].pc # "idle" /\ web[t2].pc # "idle")
                => web[t1].app_id # web[t2].app_id

\* C3: in bot.py an application whose status is approved or rejected never
\* gets the status pending or received again.
C3_DecisionIsFinal ==
    [][\A a \in AppIds :
          status[a] \in {"approved", "rejected"} => status'[a] \in {"approved", "rejected"}]_vars

\* the last answer is that of a completed approve/reject of application a,
\* given by command or by the button of the administrator's recorded copy
DecisionCompleted(a) ==
    /\ last.app_id = a
    /\ last.action \in {"approve", "reject"}
    /\ last.reply = "ok"
    /\ last.op = "cmd" \/ (last.op = "button" /\ last.own)
    /\ upd.pc = "idle"

\* the consumer has taken application a from the queue and is through with it
ConsumerFinished(a) ==
    /\ status[a] # "none"
    /\ cons.pc = "get"
    /\ \A k \in 1..Len(app_queue) : app_queue[k][1] # a

\* C4: in bot.py, once a decision on an application is completed and the
\* consumer is through with the application, every administrator's delivered
\* copy shows the decided content, or is one the decision tried to edit
\* (and Telegram refused): no copy is left out of the decision's edits.
C4_NoCopyLeftNew ==
    variant = "bot" =>
        \A a \in AppIds :
            (DecisionCompleted(a) /\ ConsumerFinished(a)) =>
                \A c \in AdminSet :
                    tg[a][c] \in {"none", NewStatus(last.action)} \/ c \in last.edited

\* C5: in bot.py an approve by an administrator (button or /approve) of an
\* existing application stores the status approved, and when the handler
\* answers it has tried to edit every recorded copy of the application, the
\* acting administrator's own one included.
C5_ApproveEditsEveryRef ==
    [][/\ (upd.pc = "idle" /\ upd'.pc = "edit" /\ upd'.action = "approve")
            => status'[upd'.app_id] = "approved"
       /\ (upd.pc = "edit" /\ upd.action = "approve" /\ last'.reply = "ok")
            => get_application_messages(upd.app_id) \subseteq last'.edited]_vars

\* a button press or command of user u
RequestOf(u) ==
    \/ \E action \in Tokens, id \in AppIds, own \in BOOLEAN : ButtonPress(u, action, id, own)
    \/ \E action \in Commands, id \in AppIds : Command(u, action, id)
    \/ \E action \in JsonTokens, id \in AppIds : JsonButton(u, action, id)

\* C6: in every variant a button press or command of a user who is not an
\* administrator is answered with the denial and changes neither the
\* applications and their status or bucket, nor a counter, nor the recorded
\* copies, nor the persisted file; no handler goes on working for it.
C6_NonAdminDenied ==
    [][\A u \in Users \ AdminSet :
          RequestOf(u) =>
              /\ last'.reply = "denied"
              /\ UNCHANGED <<botStore, jsonStore, db_file, upd, btn, tg, sent>>]_vars

\* C6 happens: a user who is no administrator asked for the approval of an
\* application that is pending and was denied
C6_Witness ==
    /\ last.reply = "denied"
    /\ last.user \notin AdminSet
    /\ last.action = "approve"
    /\ IF variant = "bot"
       THEN status[last.app_id] = "pending"
       ELSE PENDING_APPLICATIONS[last.app_id].in

\* a required field of the body is missing or blank
MissingOrBlank(data) ==
    data.null \/ \E k \in 1..Len(required_fields) : data[required_fields[k]] \in {"absent", "blank"}

\* C7: in main.py / app.py a POST /submit whose body misses a required field
\* or has it blank is answered 400 and adds no record, leaves
\* application_counter, notifies nobody and does not rewrite the file.
C7_MissingFieldIs400 ==
    [][\A t \in WebTasks, data \in AllBodies :
          (MissingOrBlank(data) /\ WebhookBegin(t, data)) =>
              /\ last'.reply = "400"
              /\ web' = web
              /\ UNCHANGED <<jsonStore, db_file, sent>>]_vars

\* C8: in bot.py a POST /submit_application whose body has no application
\* data, or blank data, advances no counter, inserts no row, puts nothing on
\* the queue and is not answered with success.
C8_BlankPayloadRejected ==
    [][\A h \in HttpTasks :
          (http'[h] # http[h] /\ (http[h].body \in {"empty", "blank"}
                                    \/ http'[h].body \in {"empty", "blank"})) =>
              /\ UNCHANGED <<counter, status, appdata, tguser, app_queue>>
              /\ last'.reply # "200"]_vars

\* the transitions of the stored status the lifecycle allows
AllowedTransitions ==
    {<<"none", "received">>, <<"none", "pending">>, <<"received", "pending">>,
     <<"pending", "approved">>, <<"pending", "rejected">>,
     <<"approved", "rejected">>, <<"rejected", "approved">>}

\* C9: in bot.py every change of a stored status is a creation or one of
\* received->pending, pending->approved, pending->rejected,
\* approved->rejected, rejected->approved.
C9_OnlyAllowedTransitions ==
    [][\A a \in AppIds :
          status'[a] # status[a] => <<status[a], status'[a]>> \in AllowedTransitions]_vars

\* the bucket a decision moves a record to
BucketOf(action) == IF action = "approve" THEN "approved" ELSE "rejected"

\* C10: a decision equal to the current status changes nothing: the status
\* and updated_at (bot.py), the buckets with processed_by and processed_time
\* (main.py, app.py) stay as they are and no handler goes on to edit a copy.
C10_SameDecisionIsNoOp ==
    [][\A u \in AdminSet, action \in {"approve", "reject"}, id \in AppIds :
          /\ (status[id] = NewStatus(action)
              /\ (Command(u, action, id) \/ \E own \in BOOLEAN : ButtonPress(u, action, id, own)))
                => UNCHANGED <<status, updated_at, upd, tg>>
          /\ (SourceOf(id) = BucketOf(action) /\ JsonButton(u, action, id))
                => UNCHANGED <<jsonStore, btn>>]_vars

\* the record carries who processed it and when
Processed(r) == r.processed_by # 0 /\ r.processed_time # 0

\* the record carries neither
Unprocessed(r) == r.processed_by = 0 /\ r.processed_time = 0

\* C11: in main.py / app.py a record of the pending bucket has neither
\* processed_by nor processed_time, a record of the approved or of the
\* rejected bucket has both.
C11_ProcessedIffDecided ==
    variant = "json" =>
        \A id \in AppIds :
            /\ PENDING_APPLICATIONS[id].in => Unprocessed(PENDING_APPLICATIONS[id])
            /\ APPROVED_APPLICATIONS[id].in => Processed(APPROVED_APPLICATIONS[id])
            /\ REJECTED_APPLICATIONS[id].in => Processed(REJECTED_APPLICATIONS[id])

\* C11 happens: a record decided twice sits in the rejected bucket, processed
C11_Witness ==
    /\ variant = "json"
    /\ \E id \in AppIds :
          /\ REJECTED_APPLICATIONS[id].in
          /\ REJECTED_APPLICATIONS[id].approved
          /\ Processed(REJECTED_APPLICATIONS[id])
          /\ ~PENDING_APPLICATIONS[id].in

\* the buckets that hold the id
BucketsOf(id) ==
    (IF PENDING_APPLICATIONS[id].in THEN {"pending"} ELSE {})
    \cup (IF APPROVED_APPLICATIONS[id].in THEN {"approved"} ELSE {})
    \cup (IF REJECTED_APPLICATIONS[id].in THEN {"rejected"} ELSE {})

\* C12: in main.py / app.py an id is a key of one bucket at most, and it
\* leaves all three only by a delete.
C12_ExactlyOneBucket ==
    [][\A id \in AppIds :
          /\ Cardinality(BucketsOf(id)') <= 1
          /\ (BucketsOf(id) # {} /\ BucketsOf(id)' = {}) => btn'.action = "delete"]_vars

\* the rows of the pair among the messages rows rs
RefsIn(rs, app_id, chat_id) == {r \in rs : r[1] = app_id /\ r[2] = chat_id}
RefsOf(app_id, chat_id) == RefsIn(refs, app_id, chat_id)

\* C13: in bot.py a pair (application_id, chat_id) has one row of messages
\* at most, and save_message for a pair that has a row puts the new
\* message_id into it and leaves the number of rows.
C13_OneRefPerPair ==
    [][/\ \A a \in AppIds, c \in AdminSet : Cardinality(RefsIn(refs', a, c)) <= 1
       /\ (cons.pc = "savemsg" /\ cons'.pc # "savemsg"
           /\ RefsOf(cons.app_id, ADMIN_CHAT_IDS[cons.i]) # {})
            => /\ Cardinality(refs') = Cardinality(refs)
               /\ RefsIn(refs', cons.app_id, ADMIN_CHAT_IDS[cons.i])
                    = {<<cons.app_id, ADMIN_CHAT_IDS[cons.i], MessageId(cons.app_id, cons.i)>>}]_vars

\* C13 happens: the consumer has sent a second message for the application
\* to a chat whose first message is recorded, and is about to record it
C13_Witness ==
    /\ variant = "bot"
    /\ cons.pc = "savemsg"
    /\ \E r \in RefsOf(cons.app_id, ADMIN_CHAT_IDS[cons.i]) :
          r[3] # MessageId(cons.app_id, cons.i)

\* the step is a send of the consumer that failed
SendFailed == cons.pc = "send" /\ cons' # cons /\ cons'.pc # "savemsg"

\* the chats a copy of the application was delivered to, by the contents t
Delivered(t, app_id) == {c \in AdminSet : t[app_id][c] # "none"}

\* the chats with a row for the application among the messages rows rs
Recorded(rs, app_id) == {r[2] : r \in {x \in rs : x[1] = app_id}}

\* C14: in bot.py's fan-out a failed send records nothing and is followed by
\* the send to the next administrator of the list (after the last one by the
\* status update); when the consumer leaves the application its status is
\* pending and the chats with a recorded copy are those a send succeeded for.
C14_FailedSendIsolated ==
    [][/\ SendFailed =>
            /\ UNCHANGED refs
            /\ cons' = IF cons.i < Len(ADMIN_CHAT_IDS)
                       THEN [pc |-> "send", app_id |-> cons.app_id, i |-> cons.i + 1]
                       ELSE [pc |-> "status", app_id |-> cons.app_id, i |-> cons.i]
       /\ (cons.pc # "get" /\ cons'.pc = "get") =>
            /\ status'[cons.app_id] = "pending"
            /\ Recorded(refs', cons.app_id) = Delivered(tg', cons.app_id)]_vars

\* C14 happens: the consumer is through with an application whose send to
\* the first administrator failed and whose send to the second succeeded
C14_Witness ==
    /\ variant = "bot"
    /\ \E a \in AppIds :
          /\ ConsumerFinished(a)
          /\ status[a] = "pending"
          /\ tg[a][1] = "none"
          /\ tg[a][2] = "new"
          /\ get_application_messages(a) = {2}

\* C15: in bot.py the handler of a decision tries the edit of every recorded
\* copy in another chat than the actor's whatever edit fails, leaves the
\* status it wrote, and ends.
C15_EditFailureIsolated ==
    [][(upd.pc = "edit" /\ upd' # upd) =>
          /\ upd'.pc = "idle"
          /\ UNCHANGED status
          /\ (get_application_messages(upd.app_id) \ {upd.user}) \subseteq last'.edited]_vars

\* C16: in bot.py, with the consumer scheduled and its calls returning, an
\* application stored with status received is taken from the queue in the
\* end and its status becomes pending.
C16_ReceivedBecomesPending ==
    \A a \in AppIds :
        (status[a] = "received")
            ~> (status[a] = "pending" /\ \A k \in 1..Len(app_queue) : app_queue[k][1] # a)

\* C16 happens: an application that came by HTTP is pending and the consumer
\* is through with it
C16_Witness ==
    /\ variant = "bot"
    /\ \E a \in AppIds :
          /\ appdata[a] = BodyData("full")
          /\ status[a] = "pending"
          /\ ConsumerFinished(a)

\* C17: a view (bot.py: button or /review) or details (main.py, app.py)
\* action of an administrator on an existing application changes no row, no
\* status, no counter, no recorded copy, no bucket and no record.
C17_ViewIsPureRead ==
    [][/\ \A u \in AdminSet, id \in AppIds :
            /\ (status[id] # "none"
                /\ (Command(u, "review", id) \/ \E own \in BOOLEAN : ButtonPress(u, "view", id, own)))
                  => UNCHANGED <<botStore, upd>>
            /\ (SourceOf(id) # "none" /\ JsonButton(u, "details", id))
                  => UNCHANGED jsonStore
       /\ (btn.pc = "edit" /\ btn.action = "details" /\ btn' # btn)
            => UNCHANGED jsonStore]_vars

\* C17 happens: an administrator got the details of a pending application
C17_Witness ==
    /\ variant = "json"
    /\ last.op = "button"
    /\ last.user \in AdminSet
    /\ last.action = "details"
    /\ last.reply = "ok"
    /\ PENDING_APPLICATIONS[last.app_id].in

\* C18: an action of an administrator (button or command, any token) that
\* names an id no row or bucket holds is answered "not found" and changes
\* nothing: no row, status, copy or handler state in bot.py, no bucket,
\* counter or file in main.py / app.py.
C18_AbsentIdChangesNothing ==
    [][\A id \in AppIds :
          /\ (variant = "bot" /\ status[id] = "none" /\ upd.pc = "idle")
               => \A u \in AdminSet, action \in Tokens \cup Commands :
                    (Command(u, action, id) \/ \E own \in BOOLEAN : ButtonPress(u, action, id, own))
                      => /\ last'.reply = "notfound"
                         /\ UNCHANGED <<botStore, tg, upd, app_queue>>
          /\ (variant = "json" /\ BucketsOf(id) = {} /\ btn.pc = "idle")
               => \A u \in AdminSet, action \in JsonTokens :
                    JsonButton(u, action, id)
                      => /\ last'.reply = "notfound"
                         /\ UNCHANGED <<jsonStore, db_file, btn>>]_vars

\* C18 happens: a delete that names an id deleted before was answered
C18_Witness ==
    /\ variant = "json"
    /\ last.op = "button"
    /\ last.user \in AdminSet
    /\ last.action = "delete"
    /\ last.reply = "notfound"
    /\ application_counter > last.app_id
    /\ BucketsOf(last.app_id) = {}

\* C19: a button press of an administrator on an existing application whose
\* token is none of the handler's actions is answered to that administrator
\* as an unknown action.
C19_UnknownActionAnswered ==
    [][\A u \in AdminSet, id \in AppIds :
          /\ \A action \in Tokens \ {"approve", "reject", "view"} :
               (status[id] # "none" /\ \E own \in BOOLEAN : ButtonPress(u, action, id, own))
                  => last'.reply = "unknown"
          /\ \A action \in JsonTokens \ {"approve", "reject", "details", "delete"} :
               (BucketsOf(id) # {} /\ JsonButton(u, action, id))
                  => last'.reply = "unknown"]_vars

\* C20: in main.py / app.py a delete of an administrator on an existing
\* application leaves the id in no bucket, and an id whose delete was the last
\* request answered is put into no bucket again.
C20_DeletedIsAbsorbing ==
    [][\A id \in AppIds :
          /\ \A u \in AdminSet :
               (BucketsOf(id) # {} /\ JsonButton(u, "delete", id)) => BucketsOf(id)' = {}
          /\ (/\ last.op = "button" /\ last.action = "delete" /\ last.app_id = id
              /\ last.reply \in {"ok", "error"}
              /\ BucketsOf(id) = {})
                => BucketsOf(id)' = {}]_vars

\* C21: in bot.py every row of messages names an application that has a row
\* in applications: a copy is recorded only for a stored application, and no
\* application row goes away while copies of it are recorded.
C21_RefsNameStoredApplications ==
    \A r \in refs : r[1] \in AppIds /\ status[r[1]] # "none"

\* C21 happens: the copies of a stored application sent to both
\* administrators are recorded
C21_Witness ==
    /\ variant = "bot"
    /\ \E a \in AppIds : /\ status[a] # "none"
                         /\ get_application_messages(a) = AdminSet

\* the stored applications among the rows with status st
StoredIn(st) == Cardinality({a \in AppIds : st[a] # "none"})

\* C22: a submission answered with success is, when the answer is given,
\* stored as pending, and its id text is "APP-" and the number of accepted
\* submissions so far written with four digits ("APP-0001" for the first),
\* in bot.py's POST /submit_application and in main.py's POST /submit.
C22_IdAndStatusAtResponse ==
    [][/\ ((\E h \in HttpTasks : HttpSave(h)) /\ last'.reply = "200")
            => /\ status'[last'.app_id] = "pending"
               /\ FormatAppId(last'.app_id) = <<"APP-">> \o ZeroPad(Digits(StoredIn(status')), 4)
       /\ (\E t \in WebTasks, oks \in SendOutcomes : WebhookFinish(t, oks))
            => /\ PENDING_APPLICATIONS'[last'.app_id].in
               /\ str(last'.app_id) = <<"APP-">> \o ZeroPad(Digits(last'.app_id), 4)]_vars

\* the record of the id in the buckets p, a, r, searched as main.py does
LookupIn(p, a, r, id) ==
    IF p[id].in THEN p[id] ELSE IF a[id].in THEN a[id] ELSE IF r[id].in THEN r[id] ELSE Absent

\* C23: when a submission is answered with success, the application read by
\* the answered id holds the submitted values, and an approve, reject, view
\* or details leaves the values of the application as they are.
C23_PayloadRoundTrip ==
    [][/\ \A h \in HttpTasks :
            (HttpSave(h) /\ last'.reply = "200")
              => /\ appdata'[last'.app_id] = BodyData(http[h].body)
                 /\ tguser'[last'.app_id] = BodyTelegram(http[h].body)
       /\ \A t \in WebTasks :
            ((\E oks \in SendOutcomes : WebhookFinish(t, oks)) /\ BucketsOf(web[t].app_id) # {})
              => LookupIn(PENDING_APPLICATIONS', APPROVED_APPLICATIONS', REJECTED_APPLICATIONS',
                          web[t].app_id).payload = PayloadOf(t)
       /\ \A u \in AdminSet, id \in AppIds :
            /\ (status[id] # "none"
                /\ \E action \in Tokens \cup Commands :
                      Command(u, action, id) \/ \E own \in BOOLEAN : ButtonPress(u, action, id, own))
                  => UNCHANGED <<appdata, tguser>>
            /\ (BucketsOf(id) # {}
                /\ \E action \in {"approve", "reject", "details"} : JsonButton(u, action, id))
                  => LookupIn(PENDING_APPLICATIONS', APPROVED_APPLICATIONS',
                              REJECTED_APPLICATIONS', id).payload = Lookup(id).payload]_vars

\* C24: in bot.py a chat text with the marker ends as one stored application
\* with status pending, the text as payload, the handle of its Telegram line
\* (or "N/A" when the line is absent or unusable) and one queue entry, so
\* that no counter value is taken without a row.
C24_MarkerTextIsStored ==
    [][ChatSave =>
          /\ status[upd.app_id] = "none"
          /\ status'[upd.app_id] = "pending"
          /\ appdata'[upd.app_id] = upd.action
          /\ tguser'[upd.app_id] = (IF upd.action = "label" THEN "@h" ELSE "N/A")
          /\ app_queue' = Append(app_queue, <<upd.app_id, "telegram">>)]_vars

\* the sum of the three counts of GET /
Total(p, a, r) ==
    index(p, a, r).pending_applications + index(p, a, r).approved_applications
    + index(p, a, r).rejected_applications

\* the sum before and after the step
TotalNow == Total(PENDING_APPLICATIONS, APPROVED_APPLICATIONS, REJECTED_APPLICATIONS)
TotalNext == Total(PENDING_APPLICATIONS', APPROVED_APPLICATIONS', REJECTED_APPLICATIONS')

\* C25: in main.py / app.py the sum of the counts of GET / is the number of
\* accepted submissions less the number of deleted applications: the store
\* of an accepted submission adds one to it, a delete of an application takes
\* one from it, and an approve, reject or details leaves it as it is.
C25_CountsFollowOperations ==
    [][/\ (\E t \in WebTasks : WebhookPut(t)) => TotalNext = TotalNow + 1
       /\ \A u \in AdminSet, id \in AppIds :
            BucketsOf(id) # {} =>
               /\ JsonButton(u, "delete", id) => TotalNext = TotalNow - 1
               /\ (\E action \in {"approve", "reject", "details"} : JsonButton(u, action, id))
                     => TotalNext = TotalNow]_vars

\* the step runs update_application_status: the consumer's last step, or an
\* approve or reject of an administrator by button or command
StatusWrite ==
    \/ ConsStatus
    \/ \E u \in AdminSet, action \in {"approve", "reject"}, id \in AppIds :
          /\ status[id] # "none"
          /\ Command(u, action, id) \/ \E own \in BOOLEAN : ButtonPress(u, action, id, own)

\* C26: in bot.py no update_application_status runs while a task is inside
\* the app_lock section that allocates an id and inserts the row.
C26_StatusWriteOutsideLock ==
    [][StatusWrite => app_lock = "free"]_vars

\* the step ends a request of main.py / app.py: a /submit that is answered,
\* or a button press of an administrator that is answered or has raised
RequestEnds ==
    \/ \E t \in WebTasks, oks \in SendOutcomes : WebhookFinish(t, oks)
    \/ \E ok \in EditOutcomes : JsonButtonFinish(ok)
    \/ \E u \in Pressers, action \in Presses, id \in AppIds :
          JsonButton(u, action, id) /\ btn'.pc = "idle"

\* no request is under way
Quiet(w, b) == b.pc = "idle" /\ \A t \in WebTasks : w[t].pc = "idle"

\* C27: in main.py / app.py, when a request has ended, normally or by a
\* Telegram call that raised, and no other request is under way, the
\* persisted document holds the buckets and the counter as they are in memory.
C27_FileFollowsMemory ==
    [][(RequestEnds /\ Quiet(web', btn')) =>
          db_file' = [pending |-> PENDING_APPLICATIONS', approved |-> APPROVED_APPLICATIONS',
                      rejected |-> REJECTED_APPLICATIONS', counter |-> application_counter']]_vars

\* C28: in bot.py's fan-out a slow administrator does not hold up the
\* others: while the call to the first administrator of the list is
\* outstanding, the call to a later one is issued all the same.
C28_SlowRecipientDoesNotBlock ==
    \A a \in AppIds :
        (cons.pc = "send" /\ cons.app_id = a /\ cons.i = 1)
            ~> (cons.app_id = a /\ cons.i > 1)

\* C29: in bot.py the HTTP intake does not wait for the delivery: a request
\* that holds the lock is answered whatever the consumer does, and its
\* success answer is given when the row is stored and the id is queued, with
\* no step of the consumer in between.
C29_IntakeDoesNotWaitOnDelivery ==
    /\ [][\A h \in HttpTasks :
            (HttpSave(h) /\ last'.reply = "200")
              => /\ status'[last'.app_id] = "received"
                 /\ app_queue' = Append(app_queue, <<last'.app_id, "website">>)
                 /\ UNCHANGED <<cons, tg, refs>>]_vars
    /\ \A h \in HttpTasks : (http[h].pc # "idle") ~> (http[h].pc = "idle")

\* C29 happens: while the consumer is at a send for one application, a
\* further submission was answered with success, stored and queued
C29_Witness ==
    /\ variant = "bot"
    /\ cons.pc = "send"
    /\ last.op = "http" /\ last.reply = "200"
    /\ last.app_id # cons.app_id
    /\ status[last.app_id] = "received"
    /\ \E k \in 1..Len(app_queue) : app_queue[k][1] = last.app_id

\* C30: a button press of an administrator on an existing application with a
\* token that is none of the handler's actions changes no row, status, counter
\* or recorded copy and edits no message (bot.py), and no bucket, record or
\* counter, and starts no edit (main.py, app.py).
C30_UnknownActionIsNoOp ==
    [][\A u \in AdminSet, id \in AppIds :
          /\ \A action \in Tokens \ {"approve", "reject", "view"} :
               (status[id] # "none" /\ \E own \in BOOLEAN : ButtonPress(u, action, id, own))
                  => UNCHANGED <<botStore, tg, upd, app_queue>>
          /\ \A action \in JsonTokens \ {"approve", "reject", "details", "delete"} :
               (BucketsOf(id) # {} /\ JsonButton(u, action, id))
                  => UNCHANGED <<jsonStore, btn, sent>>]_vars

\* C30 happens: an administrator pressed an unknown token on an approved
\* application of main.py / app.py
C30_Witness ==
    /\ variant = "json"
    /\ last.op = "button"
    /\ last.user \in AdminSet
    /\ last.action = "foo"
    /\ last.reply = "none"
    /\ APPROVED_APPLICATIONS[last.app_id].in

\* C31: in bot.py, when an administrator's approve or reject by button
\* completes with every edit accepted on an application whose copies show
\* the opposite decision of another press, every recorded copy of the
\* application shows the decision of this press, and the stored status is
\* that decision.
C31_SecondDecisionShownEverywhere ==
    [][(/\ ButtonEdits(TRUE, ButtonTargets(upd.app_id, upd.user))
        /\ \E c \in AdminSet :
              tg[upd.app_id][c] \in {"approved", "rejected"} \ {upd.new_status})
          => /\ status'[upd.app_id] = upd.new_status
             /\ \A c \in get_application_messages(upd.app_id) :
                   tg'[upd.app_id][c] = upd.new_status]_vars

\* C32: in main.py / app.py the flags of a record agree with its bucket: a
\* record of REJECTED_APPLICATIONS has no approved flag, a record of
\* APPROVED_APPLICATIONS has no rejected flag, and format_application labels
\* each by its bucket.
C32_FlagsAgreeWithBucket ==
    \A id \in AppIds :
        /\ REJECTED_APPLICATIONS[id].in
              => /\ ~REJECTED_APPLICATIONS[id].approved
                 /\ format_application(REJECTED_APPLICATIONS[id]) = "rejected"
        /\ APPROVED_APPLICATIONS[id].in
              => /\ ~APPROVED_APPLICATIONS[id].rejected
                 /\ format_application(APPROVED_APPLICATIONS[id]) = "approved"

\* the step puts an entry on the queue / sends a fan-out message that arrives
Enqueues == Len(app_queue') = Len(app_queue) + 1
FanOutSent == cons.pc = "send" /\ cons'.pc = "savemsg"

\* C33: in bot.py an application is queued once, by the step that stores its
\* row; the consumer takes from the queue only ids that have a row and that
\* it has not fanned out before; and no administrator is sent a second
\* fan-out message for an application.
C33_QueuedAndFannedOutOnce ==
    [][/\ Enqueues
            => \E a \in AppIds : /\ status[a] = "none" /\ status'[a] # "none"
                                 /\ \E src \in {"website", "telegram"} :
                                       app_queue' = Append(app_queue, <<a, src>>)
       /\ ConsGet
            => /\ status[Head(app_queue)[1]] # "none"
               /\ Delivered(tg, Head(app_queue)[1]) = {}
               /\ get_application_messages(Head(app_queue)[1]) = {}
       /\ FanOutSent
            => tg[cons.app_id][ADMIN_CHAT_IDS[cons.i]] = "none"]_vars

\* C34: in main.py / app.py a POST /submit that is answered 500 has added no
\* record to a bucket and has left application_counter and the file as they
\* were.
C34_ServerErrorChangesNothing ==
    [][\A t \in WebTasks, data \in WebBodies :
          (variant = "json" /\ web[t].pc = "idle" /\ Validate(data) = "500" /\ WebhookBegin(t, data))
            => /\ last'.reply = "500"
               /\ UNCHANGED <<jsonStore, db_file, web, sent>>]_vars

\* C34 happens: a submission was answered 500 after an earlier one was stored
C34_Witness ==
    /\ variant = "json"
    /\ last.op = "submit"
    /\ last.reply = "500"
    /\ application_counter > 1
    /\ \E id \in AppIds : PENDING_APPLICATIONS[id].in

====
